---- MODULE Spec2Model ----
(***************************************************************************)
(* The affiliate-link store of src/src/index.ts: three SQLite tables       *)
(* (affiliate_links, link_clicks, link_conversions) and the tools of the   *)
(* "tools/call" handler that read and write them: store_affiliate_link,    *)
(* get_affiliate_links, get_best_link, search_links, get_stats,            *)
(* track_click and track_conversion.                                       *)
(*                                                                         *)
(* Three specifications share Init and the statements:                     *)
(*   Spec       every handler runs to completion: the link table, the two  *)
(*              event tables and get_stats;                                *)
(*   SpecQuery  the link table and the three queries over it (no query     *)
(*              reads an event table, and filter, order and limit read no  *)
(*              counter);                                                  *)
(*   SpecCrash  the tracking handlers statement by statement, where the    *)
(*              process may stop or the second statement fail.             *)
(*                                                                         *)
(* Encodings.                                                              *)
(*  - A JavaScript value that may be undefined, or an SQL value that may   *)
(*    be NULL, is a sequence: <<>> when absent, <<v>> when present.        *)
(*  - Text that LIKE inspects (product, notes, the search query) is a      *)
(*    sequence of one-character strings.                                   *)
(*  - REAL columns (commission_rate, amount, revenue) hold integers: a     *)
(*    rate is a whole percentage, an amount a whole number of half units   *)
(*    (20 is 10.0, 45 is 22.5), values on which binary floating point is   *)
(*    exact.                                                               *)
(*  - affiliate_links is the sequence of its rows in insertion (rowid)     *)
(*    order.  Link identifiers are naturals; generateId returns one no row *)
(*    has yet (a collision of two "aff_<ms>_<random>" strings is not       *)
(*    modelled).                                                           *)
(*  - link_clicks and link_conversions are bags of rows.  Their id,        *)
(*    timestamp, source, user_id and order_id columns, which no tool ever  *)
(*    reads, are not represented, so two rows that differ only there are   *)
(*    two copies of one element of the bag.                                *)
(***************************************************************************)
EXTENDS Integers, Sequences, FiniteSets, Bags, TLC

VARIABLES
  affiliate_links,   \* rows of table affiliate_links
  link_clicks,       \* rows of table link_clicks
  link_conversions,  \* rows of table link_conversions
  supplied,          \* history: supplied[i] = arguments that created link row i
  request,           \* the last tools/call request: [tool, args]
  response,          \* the result returned for it: [isError, body]
  pc                 \* position of the handler in flight (statement-level runs)

vars == <<affiliate_links, link_clicks, link_conversions, supplied,
          request, response, pc>>

----------------------------------------------------------------------------
(* Bounds of the model *)

MaxClicks == 2        \* link_clicks holds at most this many rows
MaxConversions == 2   \* link_conversions holds at most this many rows

----------------------------------------------------------------------------
(* Optional values *)

None == <<>>
Some(v) == <<v>>
IsSome(o) == o # <<>>
Get(o) == o[1]

(* JavaScript truthiness of an optional string, number or array argument *)
TruthyString(o) == IsSome(o) /\ Get(o) # ""
TruthyNumber(o) == IsSome(o) /\ Get(o) # 0
TruthyObject(o) == IsSome(o)

----------------------------------------------------------------------------
(* Inputs *)

Now == "now"          \* new Date().toISOString()

Mat == <<"M", "a", "t">>
mug == <<"m", "u", "g">>
tag == <<"t", "a", "g">>

StoreArgs ==
  { [program |-> "amazon", product |-> Mat, link |-> "https://a.example/1",
     commissionRate |-> 5, category |-> "tech",
     tags |-> Some(<<"x", "y">>), expiry |-> None, notes |-> Some(tag)],
    [program |-> "cj", product |-> mug, link |-> "https://a.example/1",
     commissionRate |-> 150, category |-> "home",
     tags |-> Some(<<>>), expiry |-> Some("2030-01-01T00:00:00Z"), notes |-> None],
    [program |-> "cj", product |-> mug, link |-> "https://b.example/2",
     commissionRate |-> 10, category |-> "tech",
     tags |-> None, expiry |-> Some(""), notes |-> None],
    [program |-> "amazon", product |-> Mat, link |-> "https://b.example/2",
     commissionRate |-> 5, category |-> "tech",
     tags |-> None, expiry |-> None, notes |-> Some(mug)],
    [program |-> "amazon", product |-> mug, link |-> "https://b.example/2",
     commissionRate |-> -1, category |-> "",
     tags |-> None, expiry |-> None, notes |-> None] }

(* get_affiliate_links arguments *)
CategoryArgs == {None, Some(""), Some("tech")}
ProgramArgs == {None, Some("amazon")}
MinCommissionArgs == {None, Some(5)}
MaxCommissionArgs == {None, Some(10)}
LimitArgs == {None, Some(0), Some(1)}

(* get_best_link arguments *)
BestCategoryArgs == {"", "tech", "home", "garden"}

(* search_links arguments (no query holds a LIKE wildcard, % or _) *)
QueryArgs == {<<>>, <<"a">>, <<"m">>, <<"u", "g">>, tag, <<"z">>}
SearchLimitArgs == {None, Some(1), Some(2)}

(* export_links arguments *)
FormatArgs == {"json", "csv"}

LinkIds == 1 .. 3                \* linkId arguments; no link ever has id 3
Amounts == {-20, 20, 45}         \* -10.0, 10.0, 22.5

----------------------------------------------------------------------------
(* Tables and statements *)

generateId(links) == Len(links) + 1

HasLink(links, id) == \E i \in 1 .. Len(links) : links[i].id = id

LinkRow(links, id) == links[CHOOSE i \in 1 .. Len(links) : links[i].id = id]

(* Mutant: the link column without its UNIQUE constraint *)
UniqueLinkOk_NoConstraint(links, url) == TRUE

(* UNIQUE constraint on affiliate_links.link *)
UniqueLinkOk(links, url) == \A i \in 1 .. Len(links) : links[i].link # url

(* Mutant: the foreign key declared but not enforced *)
ForeignKeyOk_NotEnforced(links, linkId) == TRUE

(* FOREIGN KEY(link_id) REFERENCES affiliate_links(id).  The handle is a   *)
(* better-sqlite3 Database, whose connections have foreign-key enforcement *)
(* on unless a pragma turns it off (the code sets only journal_mode), so   *)
(* an INSERT into an event table with any other link_id throws.            *)
ForeignKeyOk(links, linkId) == HasLink(links, linkId)

(* JSON.stringify / JSON.parse of a tags array: the stored text is kept as *)
(* the value it denotes, marked as text                                    *)
JSONparse(text) == text.json

JSONstringify(v) == [json |-> v]

(* INSERT INTO affiliate_links (id, program, product, link, commission_rate, *)
(* category, tags, expiry, created_at, updated_at): the columns it does not  *)
(* name take their defaults (clicks, conversions, revenue 0; notes NULL).    *)
InsertLinkRow(id, args, now) ==
  [id |-> id,
   program |-> args.program,
   product |-> args.product,
   link |-> args.link,
   commission_rate |-> args.commissionRate,
   category |-> args.category,
   tags |-> IF TruthyObject(args.tags) THEN Some(JSONstringify(Get(args.tags))) ELSE None,
   expiry |-> IF TruthyString(args.expiry) THEN args.expiry ELSE None,
   created_at |-> now,
   updated_at |-> now,
   clicks |-> 0,
   conversions |-> 0,
   revenue |-> 0,
   notes |-> None]

(* INSERT INTO link_clicks (id, link_id, timestamp, source, user_id) *)
InsertClick(clicks, linkId) == clicks (+) SetToBag({[link_id |-> linkId]})

(* INSERT INTO link_conversions (id, link_id, timestamp, amount, order_id) *)
InsertConversion(convs, linkId, amount) ==
  convs (+) SetToBag({[link_id |-> linkId, amount |-> amount]})

(* Mutant: the UPDATE without its WHERE clause *)
UpdateClicks_NoWhere(links, linkId) ==
  [i \in 1 .. Len(links) |-> [links[i] EXCEPT !.clicks = @ + 1]]

(* Mutant: the UPDATE also refreshes updated_at *)
UpdateClicks_TouchUpdatedAt(links, linkId) ==
  [i \in 1 .. Len(links) |->
     IF links[i].id = linkId
     THEN [links[i] EXCEPT !.clicks = @ + 1, !.updated_at = "later"]
     ELSE links[i]]

(* UPDATE affiliate_links SET clicks = clicks + 1 WHERE id = ? *)
UpdateClicks(links, linkId) ==
  [i \in 1 .. Len(links) |->
     IF links[i].id = linkId
     THEN [links[i] EXCEPT !.clicks = @ + 1]
     ELSE links[i]]

(* Mutant: revenue = ? in place of revenue = revenue + ? *)
UpdateConversions_Overwrite(links, linkId, amount) ==
  [i \in 1 .. Len(links) |->
     IF links[i].id = linkId
     THEN [links[i] EXCEPT !.conversions = @ + 1, !.revenue = amount]
     ELSE links[i]]

(* UPDATE affiliate_links SET conversions = conversions + 1,               *)
(* revenue = revenue + ? WHERE id = ?                                      *)
UpdateConversions(links, linkId, amount) ==
  [i \in 1 .. Len(links) |->
     IF links[i].id = linkId
     THEN [links[i] EXCEPT !.conversions = @ + 1, !.revenue = @ + amount]
     ELSE links[i]]

(* SELECT COUNT( * ) FROM <event table> WHERE link_id = ? *)
CountFor(events, linkId) ==
  BagCardinality([r \in {q \in DOMAIN events : q.link_id = linkId} |-> events[r]])

(* The catch block: the thrown error's message, flagged isError *)
Thrown(message) == [isError |-> TRUE, body |-> [error |-> message]]

Returned(body) == [isError |-> FALSE, body |-> body]

Idle == [at |-> "idle", linkId |-> 0, amount |-> 0]

----------------------------------------------------------------------------
(* Initial state: the tables as CREATE TABLE IF NOT EXISTS leaves a new file *)

Init ==
  /\ affiliate_links = <<>>
  /\ link_clicks = EmptyBag
  /\ link_conversions = EmptyBag
  /\ supplied = <<>>
  /\ request = [tool |-> "none", args |-> <<>>]
  /\ response = Returned(<<>>)
  /\ pc = Idle

----------------------------------------------------------------------------
(* Tools, each a whole run of its case of the tools/call handler *)

store_affiliate_link ==
  /\ pc.at = "idle"
  /\ \E args \in StoreArgs :
       LET id == generateId(affiliate_links) IN
       /\ request' = [tool |-> "store_affiliate_link", args |-> args]
       /\ IF UniqueLinkOk(affiliate_links, args.link)
          THEN /\ affiliate_links' = Append(affiliate_links, InsertLinkRow(id, args, Now))
               /\ supplied' = Append(supplied, args)
               /\ response' = Returned([success |-> TRUE, linkId |-> id,
                                        message |-> <<args.product, args.program>>])
          ELSE /\ response' = Thrown("UNIQUE constraint failed: affiliate_links.link")
               /\ UNCHANGED <<affiliate_links, supplied>>
  /\ UNCHANGED <<link_clicks, link_conversions, pc>>

track_click ==
  /\ pc.at = "idle"
  /\ BagCardinality(link_clicks) < MaxClicks
  /\ \E linkId \in LinkIds :
       /\ request' = [tool |-> "track_click", args |-> [linkId |-> linkId]]
       /\ IF ForeignKeyOk(affiliate_links, linkId)
          THEN /\ link_clicks' = InsertClick(link_clicks, linkId)
               /\ affiliate_links' = UpdateClicks(affiliate_links, linkId)
               /\ response' = Returned([success |-> TRUE, message |-> "Click tracked"])
          ELSE /\ response' = Thrown("FOREIGN KEY constraint failed")
               /\ UNCHANGED <<affiliate_links, link_clicks>>
  /\ UNCHANGED <<link_conversions, supplied, pc>>

track_conversion ==
  /\ pc.at = "idle"
  /\ BagCardinality(link_conversions) < MaxConversions
  /\ \E linkId \in LinkIds, amount \in Amounts :
       /\ request' = [tool |-> "track_conversion",
                      args |-> [linkId |-> linkId, amount |-> amount]]
       /\ IF ForeignKeyOk(affiliate_links, linkId)
          THEN /\ link_conversions' =
                    InsertConversion(link_conversions, linkId, amount)
               /\ affiliate_links' = UpdateConversions(affiliate_links, linkId, amount)
               /\ response' = Returned([success |-> TRUE, message |-> <<"Conversion tracked", amount>>])
          ELSE /\ response' = Thrown("FOREIGN KEY constraint failed")
               /\ UNCHANGED <<affiliate_links, link_conversions>>
  /\ UNCHANGED <<link_clicks, supplied, pc>>

(* ((conversions / clicks) * 100).toFixed(2) + "%", in hundredths of a percent *)
ToFixed2Percent(conversions, clicks) ==
  (20000 * conversions + clicks) \div (2 * clicks)

(* Mutant: no clicks > 0 guard; 0 / 0 formats as "NaN", n / 0 as "Infinity" *)
ConversionRate_Unguarded(conversions, clicks) ==
  IF clicks > 0
  THEN [text |-> "toFixed(2)%", hundredths |-> ToFixed2Percent(conversions, clicks)]
  ELSE [text |-> IF conversions = 0 THEN "NaN%" ELSE "Infinity%", hundredths |-> 0]

ConversionRate(conversions, clicks) ==
  IF clicks > 0
  THEN [text |-> "toFixed(2)%", hundredths |-> ToFixed2Percent(conversions, clicks)]
  ELSE [text |-> "0%", hundredths |-> 0]

StatsBody(links, clickRows, convRows, linkId) ==
  LET link == LinkRow(links, linkId)
      clicks == CountFor(clickRows, linkId)
      conversions == CountFor(convRows, linkId)
  IN  [linkId |-> linkId,
       product |-> link.product,
       program |-> link.program,
       clicks |-> clicks,
       conversions |-> conversions,
       revenue |-> link.revenue,
       conversionRate |-> ConversionRate(conversions, clicks)]

get_stats ==
  /\ pc.at = "idle"
  /\ \E linkId \in LinkIds :
       /\ request' = [tool |-> "get_stats", args |-> [linkId |-> linkId]]
       /\ response' =
            IF ~HasLink(affiliate_links, linkId)
            THEN Returned([error |-> "Link not found"])
            ELSE Returned(StatsBody(affiliate_links, link_clicks, link_conversions, linkId))
  /\ UNCHANGED <<affiliate_links, link_clicks, link_conversions, supplied, pc>>

----------------------------------------------------------------------------
(* Queries *)

(* SELECT * FROM affiliate_links: the rows of the table *)
Rows(links) == {links[i] : i \in 1 .. Len(links)}

(* Mutant: ORDER BY commission_rate, ascending *)
OrderedByCommissionDesc_Asc(s) ==
  \A i, j \in 1 .. Len(s) : i < j => s[i].commission_rate <= s[j].commission_rate

(* ORDER BY commission_rate DESC *)
OrderedByCommissionDesc(s) ==
  \A i, j \in 1 .. Len(s) : i < j => s[i].commission_rate >= s[j].commission_rate

(* The orders in which ORDER BY commission_rate DESC may return the rows:  *)
(* rows of equal rate come in an order SQL leaves open.                    *)
OrderBy(rows) ==
  {s \in [1 .. Cardinality(rows) -> rows] :
     /\ \A i, j \in 1 .. Cardinality(rows) : s[i] = s[j] => i = j
     /\ OrderedByCommissionDesc(s)}

(* LIMIT n: a negative n is no limit *)
Limit(s, n) ==
  IF n < 0 \/ n >= Len(s) THEN s ELSE SubSeq(s, 1, n)

(* args.limit || 50 *)
LimitOrDefault(limit, default) ==
  IF TruthyNumber(limit) THEN Get(limit) ELSE default

(* ASCII case folding of LIKE *)
Lower(c) ==
  CASE c = "A" -> "a" [] c = "G" -> "g" [] c = "M" -> "m"
    [] c = "T" -> "t" [] c = "U" -> "u" [] c = "Z" -> "z"
    [] OTHER -> c

(* text LIKE pattern: % is any run of characters, _ any one character,     *)
(* letters compare without regard to case                                  *)
RECURSIVE Like(_, _)
Like(text, pattern) ==
  IF pattern = <<>> THEN text = <<>>
  ELSE IF Head(pattern) = "%"
       THEN Like(text, Tail(pattern)) \/ (text # <<>> /\ Like(Tail(text), pattern))
       ELSE /\ text # <<>>
            /\ Head(pattern) = "_" \/ Lower(Head(pattern)) = Lower(Head(text))
            /\ Like(Tail(text), Tail(pattern))

(* column LIKE ? on a column that may be NULL: NULL LIKE ... is not true *)
ColumnLike(column, pattern) == IsSome(column) /\ Like(Get(column), pattern)

ListedLink(row) ==
  [id |-> row.id, program |-> row.program, product |-> row.product,
   link |-> row.link, commissionRate |-> row.commission_rate,
   category |-> row.category, clicks |-> row.clicks,
   conversions |-> row.conversions, revenue |-> row.revenue]

FoundLink(row) ==
  [id |-> row.id, product |-> row.product, program |-> row.program,
   link |-> row.link, commissionRate |-> row.commission_rate,
   category |-> row.category]

(* The WHERE clause get_affiliate_links builds from its arguments *)
ListWhere(args, row) ==
  /\ TruthyString(args.category) => row.category = Get(args.category)
  /\ TruthyString(args.program) => row.program = Get(args.program)
  /\ IsSome(args.minCommission) => row.commission_rate >= Get(args.minCommission)
  /\ IsSome(args.maxCommission) => row.commission_rate <= Get(args.maxCommission)

(* case "get_affiliate_links", its arguments drawn from the given sets *)
get_affiliate_links_case(categories, programs, minCommissions, maxCommissions, limits) ==
  /\ pc.at = "idle"
  /\ \E category \in categories, program \in programs,
        minCommission \in minCommissions, maxCommission \in maxCommissions,
        limit \in limits :
       LET args == [category |-> category, program |-> program,
                    minCommission |-> minCommission,
                    maxCommission |-> maxCommission, limit |-> limit]
           matched == {row \in Rows(affiliate_links) : ListWhere(args, row)}
       IN  \E ordered \in OrderBy(matched) :
             LET rows == Limit(ordered, LimitOrDefault(limit, 50))
                 links == [i \in 1 .. Len(rows) |-> ListedLink(rows[i])]
             IN  /\ request' = [tool |-> "get_affiliate_links", args |-> args]
                 /\ response' = Returned([count |-> Len(links), links |-> links])
  /\ UNCHANGED <<affiliate_links, link_clicks, link_conversions, supplied, pc>>

get_affiliate_links ==
  get_affiliate_links_case(CategoryArgs, ProgramArgs, MinCommissionArgs,
                           MaxCommissionArgs, LimitArgs)

(* case "get_best_link", its argument drawn from the given set *)
get_best_link_case(categories) ==
  /\ pc.at = "idle"
  /\ \E category \in categories :
       LET matched == {row \in Rows(affiliate_links) : row.category = category}
       IN  \E ordered \in OrderBy(matched) :
             LET rows == Limit(ordered, 1)
             IN  /\ request' = [tool |-> "get_best_link",
                                args |-> [category |-> category]]
                 /\ response' =
                      IF rows = <<>>
                      THEN Returned([error |-> <<"No links found for category", category>>])
                      ELSE Returned(FoundLink(rows[1]))
  /\ UNCHANGED <<affiliate_links, link_clicks, link_conversions, supplied, pc>>

get_best_link == get_best_link_case(BestCategoryArgs)

(* case "search_links", its arguments drawn from the given sets *)
search_links_case(queries, limits) ==
  /\ pc.at = "idle"
  /\ \E query \in queries, limit \in limits :
       LET pattern == <<"%">> \o query \o <<"%">>
           matched == {row \in Rows(affiliate_links) :
                         \/ Like(row.product, pattern)
                         \/ ColumnLike(row.notes, pattern)}
       IN  \E ordered \in OrderBy(matched) :
             LET rows == Limit(ordered, LimitOrDefault(limit, 20))
                 links == [i \in 1 .. Len(rows) |-> FoundLink(rows[i])]
             IN  /\ request' = [tool |-> "search_links",
                                args |-> [query |-> query, limit |-> limit]]
                 /\ response' = Returned([query |-> query, count |-> Len(links),
                                          links |-> links])
  /\ UNCHANGED <<affiliate_links, link_clicks, link_conversions, supplied, pc>>

search_links == search_links_case(QueryArgs, SearchLimitArgs)

(* The object getAllAffiliateLinks builds from a row *)
AffiliateLinkOf(row) ==
  [id |-> row.id,
   program |-> row.program,
   product |-> row.product,
   link |-> row.link,
   commissionRate |-> row.commission_rate,
   category |-> row.category,
   tags |-> IF IsSome(row.tags) THEN JSONparse(Get(row.tags)) ELSE <<>>,
   expiry |-> row.expiry,
   createdAt |-> row.created_at,
   updatedAt |-> row.updated_at,
   clicks |-> row.clicks,
   conversions |-> row.conversions,
   revenue |-> row.revenue,
   notes |-> row.notes]

(* ORDER BY created_at DESC: rows of equal created_at come in an order SQL *)
(* leaves open                                                             *)
OrderByCreatedDesc(rows) ==
  {s \in [1 .. Cardinality(rows) -> rows] :
     /\ \A i, j \in 1 .. Cardinality(rows) : s[i] = s[j] => i = j
     /\ \A i, j \in 1 .. Cardinality(rows) : s[i].created_at = s[j].created_at}

(* `"${v}"`: a CSV field, the value between double quotes, nothing escaped *)
Quoted(v) == [quoted |-> v]

CsvHeaders ==
  <<"ID", "Program", "Product", "Link", "Commission %", "Category",
    "Clicks", "Conversions", "Revenue">>

CsvRow(l) ==
  <<Quoted(l.id), Quoted(l.program), Quoted(l.product), Quoted(l.link),
    Quoted(l.commissionRate), Quoted(l.category), Quoted(l.clicks),
    Quoted(l.conversions), Quoted(l.revenue)>>

export_links ==
  /\ pc.at = "idle"
  /\ \E format \in FormatArgs :
       \E ordered \in OrderByCreatedDesc(Rows(affiliate_links)) :
          LET links == [i \in 1 .. Len(ordered) |-> AffiliateLinkOf(ordered[i])]
          IN  /\ request' = [tool |-> "export_links", args |-> [format |-> format]]
              /\ response' =
                   IF format = "csv"
                   THEN Returned([csv |-> <<CsvHeaders>>
                                            \o [i \in 1 .. Len(links) |-> CsvRow(links[i])]])
                   ELSE Returned([json |-> links])
  /\ UNCHANGED <<affiliate_links, link_clicks, link_conversions, supplied, pc>>

----------------------------------------------------------------------------
(* The two tracking tools statement by statement.  Each stmt.run commits   *)
(* on its own (no db.transaction wraps the pair), so the state between the *)
(* INSERT and the UPDATE is a state of the database file: the process may  *)
(* stop there, or the UPDATE may throw and the catch block answer.         *)

track_click_insert ==
  /\ pc.at = "idle"
  /\ BagCardinality(link_clicks) < MaxClicks
  /\ \E linkId \in LinkIds :
       /\ request' = [tool |-> "track_click", args |-> [linkId |-> linkId]]
       /\ IF ForeignKeyOk(affiliate_links, linkId)
          THEN /\ link_clicks' = InsertClick(link_clicks, linkId)
               /\ pc' = [at |-> "track_click_update", linkId |-> linkId, amount |-> 0]
               /\ UNCHANGED response
          ELSE /\ response' = Thrown("FOREIGN KEY constraint failed")
               /\ UNCHANGED <<link_clicks, pc>>
  /\ UNCHANGED <<affiliate_links, link_conversions, supplied>>

track_click_update ==
  /\ pc.at = "track_click_update"
  /\ affiliate_links' = UpdateClicks(affiliate_links, pc.linkId)
  /\ response' = Returned([success |-> TRUE, message |-> "Click tracked"])
  /\ pc' = Idle
  /\ UNCHANGED <<link_clicks, link_conversions, supplied, request>>

track_conversion_insert ==
  /\ pc.at = "idle"
  /\ BagCardinality(link_conversions) < MaxConversions
  /\ \E linkId \in LinkIds, amount \in Amounts :
       /\ request' = [tool |-> "track_conversion",
                      args |-> [linkId |-> linkId, amount |-> amount]]
       /\ IF ForeignKeyOk(affiliate_links, linkId)
          THEN /\ link_conversions' = InsertConversion(link_conversions, linkId, amount)
               /\ pc' = [at |-> "track_conversion_update", linkId |-> linkId,
                         amount |-> amount]
               /\ UNCHANGED response
          ELSE /\ response' = Thrown("FOREIGN KEY constraint failed")
               /\ UNCHANGED <<link_conversions, pc>>
  /\ UNCHANGED <<affiliate_links, link_clicks, supplied>>

track_conversion_update ==
  /\ pc.at = "track_conversion_update"
  /\ affiliate_links' = UpdateConversions(affiliate_links, pc.linkId, pc.amount)
  /\ response' = Returned([success |-> TRUE,
                           message |-> <<"Conversion tracked", pc.amount>>])
  /\ pc' = Idle
  /\ UNCHANGED <<link_clicks, link_conversions, supplied, request>>

(* The UPDATE throws (database locked, disk full, I/O error): the catch    *)
(* block returns the error; the committed INSERT stays.                    *)
update_throws ==
  /\ pc.at # "idle"
  /\ response' = Thrown("database is locked")
  /\ pc' = Idle
  /\ UNCHANGED <<affiliate_links, link_clicks, link_conversions, supplied, request>>

(* The process stops between the two statements and is started again on    *)
(* the same database file; the caller gets no result.                      *)
Crash ==
  /\ pc.at # "idle"
  /\ response' = Thrown("connection closed")
  /\ pc' = Idle
  /\ UNCHANGED <<affiliate_links, link_clicks, link_conversions, supplied, request>>

----------------------------------------------------------------------------

Next ==
  \/ store_affiliate_link
  \/ track_click
  \/ track_conversion
  \/ get_stats

Spec == Init /\ [][Next]_vars

(* The link table and the three queries over it *)
NextQuery ==
  \/ store_affiliate_link
  \/ get_affiliate_links
  \/ get_best_link
  \/ search_links

SpecQuery == Init /\ [][NextQuery]_vars

(* The three query tools on one request each, for runs that interleave *)
(* every tool                                                          *)
list_links_request ==
  get_affiliate_links_case({Some("tech")}, {None}, {None}, {Some(10)}, {Some(1)})

best_link_request == get_best_link_case({"tech"})

search_links_request == search_links_case({<<"m">>}, {None})

(* Every tool, each handler run to completion *)
NextAll ==
  \/ store_affiliate_link
  \/ list_links_request
  \/ best_link_request
  \/ search_links_request
  \/ get_stats
  \/ track_click
  \/ track_conversion
  \/ export_links

SpecAll == Init /\ [][NextAll]_vars

NextCrash ==
  \/ store_affiliate_link
  \/ track_click_insert
  \/ track_click_update
  \/ track_conversion_insert
  \/ track_conversion_update
  \/ update_throws
  \/ Crash
  \/ get_stats

SpecCrash == Init /\ [][NextCrash]_vars

----------------------------------------------------------------------------
(* Helpers of the properties *)

LinkRows == {affiliate_links[i] : i \in 1 .. Len(affiliate_links)}

RECURSIVE SumAmounts(_, _)
SumAmounts(convs, linkId) ==
  IF DOMAIN convs = {}
  THEN 0
  ELSE LET r == CHOOSE q \in DOMAIN convs : TRUE
           rest == [q \in DOMAIN convs \ {r} |-> convs[q]]
       IN  (IF r.link_id = linkId THEN r.amount * convs[r] ELSE 0)
           + SumAmounts(rest, linkId)

ClicksOf(linkId) ==
  BagCardinality([r \in {q \in DOMAIN link_clicks : q.link_id = linkId}
                    |-> link_clicks[r]])

ConversionsOf(linkId) ==
  BagCardinality([r \in {q \in DOMAIN link_conversions : q.link_id = linkId}
                    |-> link_conversions[r]])

IsErrorBody(r) == "error" \in DOMAIN r.body

----------------------------------------------------------------------------
(* C1: after any sequence of completed store / track_click /              *)
(* track_conversion calls, every link's cached clicks counter equals the   *)
(* number of link_clicks rows whose link_id is that link's id.             *)
ClickCounterConsistency ==
  \A l \in LinkRows : l.clicks = ClicksOf(l.id)

(* Two clicks were recorded on one link while another link has none. *)
ClickCounterWitness ==
  /\ request.tool = "track_click"
  /\ ~response.isError
  /\ \E l \in LinkRows : l.clicks = 2 /\ ClicksOf(l.id) = 2
  /\ \E l \in LinkRows : l.clicks = 0

(* C2: after any sequence of completed calls, every link's cached          *)
(* conversions counter equals the number of link_conversions rows that     *)
(* reference it and its cached revenue equals the sum of their amounts.    *)
ConversionAccumulation ==
  \A l \in LinkRows :
     /\ l.conversions = ConversionsOf(l.id)
     /\ l.revenue = SumAmounts(link_conversions, l.id)

(* track_conversion(10) and track_conversion(22.5) on one link: 2 and 32.5 *)
ConversionAccumulationWitness ==
  /\ request.tool = "track_conversion"
  /\ \E l \in LinkRows :
       /\ l.conversions = 2
       /\ l.revenue = 65
       /\ [link_id |-> l.id, amount |-> 20] \in DOMAIN link_conversions
       /\ [link_id |-> l.id, amount |-> 45] \in DOMAIN link_conversions

(* C5: every row of link_clicks and of link_conversions has a link_id that *)
(* is the id of a row of affiliate_links, whatever linkId callers pass.    *)
ReferentialIntegrity ==
  /\ \A r \in DOMAIN link_clicks : HasLink(affiliate_links, r.link_id)
  /\ \A r \in DOMAIN link_conversions : HasLink(affiliate_links, r.link_id)

(* A tracking call named a link that does not exist, while events exist. *)
ReferentialIntegrityWitness ==
  /\ request.tool \in {"track_click", "track_conversion"}
  /\ ~HasLink(affiliate_links, request.args.linkId)
  /\ response.isError
  /\ link_clicks # EmptyBag
  /\ link_conversions # EmptyBag

(* C7: get_stats answers with an error exactly when linkId is the id of no *)
(* link; for a link with no click rows (even one with conversions) the     *)
(* conversionRate it reports is "0%".                                      *)
StatsNotFoundAndZeroGuard ==
  request.tool = "get_stats" =>
    LET id == request.args.linkId IN
    /\ IsErrorBody(response) <=> ~HasLink(affiliate_links, id)
    /\ HasLink(affiliate_links, id) =>
         /\ ~response.isError
         /\ response.body.linkId = id
         /\ ClicksOf(id) = 0 =>
              response.body.conversionRate = [text |-> "0%", hundredths |-> 0]
         /\ ClicksOf(id) > 0 =>
              /\ response.body.conversionRate.text = "toFixed(2)%"
              /\ 2 * response.body.conversionRate.hundredths * ClicksOf(id)
                   \in (20000 * ConversionsOf(id) - ClicksOf(id))
                       .. (20000 * ConversionsOf(id) + ClicksOf(id))

(* get_stats on a link with conversions and no clicks answered "0%". *)
StatsZeroGuardWitness ==
  /\ request.tool = "get_stats"
  /\ HasLink(affiliate_links, request.args.linkId)
  /\ ClicksOf(request.args.linkId) = 0
  /\ ConversionsOf(request.args.linkId) > 0
  /\ response.body.conversionRate.text = "0%"

(* C3: the event INSERT and the counter UPDATE of track_click and of       *)
(* track_conversion are one atomic unit: whenever no handler is in flight, *)
(* also after the process stopped or the UPDATE failed between the two     *)
(* statements, every counter agrees with the event rows.                   *)
AtomicEventRecording ==
  pc.at = "idle" =>
    \A l \in LinkRows :
       /\ l.clicks = ClicksOf(l.id)
       /\ l.conversions = ConversionsOf(l.id)
       /\ l.revenue = SumAmounts(link_conversions, l.id)

(* C4: no two rows of affiliate_links have the same link; a store whose    *)
(* link is that of an existing row returns an error and no linkId, and     *)
(* leaves the three tables as they were.                                   *)
LinkUrlUniqueness ==
  [][ /\ \A i, j \in 1 .. Len(affiliate_links') :
           affiliate_links'[i].link = affiliate_links'[j].link => i = j
      /\ (request'.tool = "store_affiliate_link"
            /\ \E l \in LinkRows : l.link = request'.args.link)
           => /\ response'.isError
              /\ IsErrorBody(response')
              /\ "linkId" \notin DOMAIN response'.body
              /\ UNCHANGED <<affiliate_links, link_clicks, link_conversions>>
    ]_vars

(* A store of an existing URL with other field values was refused; the     *)
(* store still holds the earlier row and a second link.                    *)
LinkUrlUniquenessWitness ==
  /\ request.tool = "store_affiliate_link"
  /\ response.isError
  /\ Len(affiliate_links) = 2
  /\ \E l \in LinkRows :
       /\ l.link = request.args.link
       /\ l.program # request.args.program
       /\ l.clicks > 0

(* C6: for an existing link get_stats reports the number of its click      *)
(* rows, the number of its conversion rows and the sum of their amounts,   *)
(* and these equal the cached counters of the link row.                    *)
StatsLiveAggregates ==
  (request.tool = "get_stats" /\ pc.at = "idle"
    /\ HasLink(affiliate_links, request.args.linkId)) =>
    LET id == request.args.linkId
        l == LinkRow(affiliate_links, id)
    IN  /\ response.body.clicks = ClicksOf(id)
        /\ response.body.conversions = ConversionsOf(id)
        /\ response.body.revenue = SumAmounts(link_conversions, id)
        /\ response.body.clicks = l.clicks
        /\ response.body.conversions = l.conversions
        /\ response.body.revenue = l.revenue

----------------------------------------------------------------------------
(* Helpers of the query properties *)

Min(a, b) == IF a <= b THEN a ELSE b

NoRepeats(s) == \A i, j \in 1 .. Len(s) : s[i].id = s[j].id => i = j

RatesDescend(s) ==
  \A i, j \in 1 .. Len(s) : i < j => s[i].commissionRate >= s[j].commissionRate

(* text contains q as a substring, letters compared as the datastore's     *)
(* default collation of LIKE compares them (ASCII case folded)             *)
Contains(text, q) ==
  \E start \in 0 .. Len(text) - Len(q) :
     \A k \in 1 .. Len(q) : Lower(text[start + k]) = Lower(q[k])

(* C8: get_affiliate_links returns only links that satisfy every supplied  *)
(* filter (category and program equal, commissionRate within the inclusive *)
(* bounds), all of them up to the limit (the supplied limit, 50 when none  *)
(* is supplied), by commissionRate descending, and an empty sequence, not  *)
(* an error, when none matches.                                            *)
ListFilterComposition ==
  request.tool = "get_affiliate_links" =>
    LET a == request.args
        Sat(l) ==
          /\ IsSome(a.category) => l.category = Get(a.category)
          /\ IsSome(a.program) => l.program = Get(a.program)
          /\ IsSome(a.minCommission) => l.commission_rate >= Get(a.minCommission)
          /\ IsSome(a.maxCommission) => l.commission_rate <= Get(a.maxCommission)
        matching == {l \in LinkRows : Sat(l)}
        limit == IF IsSome(a.limit) THEN Get(a.limit) ELSE 50
        got == response.body.links
    IN  /\ ~response.isError
        /\ \A i \in 1 .. Len(got) : \E l \in matching : l.id = got[i].id
        /\ NoRepeats(got)
        /\ Len(got) = Min(limit, Cardinality(matching))
        /\ RatesDescend(got)

(* C9: get_best_link returns a link of the category asked for whose        *)
(* commissionRate is at least that of every link of the category; when the *)
(* category has no link it returns a not-found result that is not flagged  *)
(* isError; either way the tables stay as they were.                       *)
BestForCategory ==
  [][ request'.tool = "get_best_link" =>
        LET c == request'.args.category
            inCategory == {l \in LinkRows : l.category = c}
        IN  /\ UNCHANGED <<affiliate_links, link_clicks, link_conversions>>
            /\ ~response'.isError
            /\ inCategory = {} => IsErrorBody(response')
            /\ inCategory # {} =>
                 \E l \in inCategory :
                    /\ response'.body.id = l.id
                    /\ response'.body.category = c
                    /\ response'.body.commissionRate = l.commission_rate
                    /\ \A o \in inCategory : l.commission_rate >= o.commission_rate
    ]_vars

(* Of two links of one category with rates 5 and 10, the one at 10 was     *)
(* returned.                                                               *)
BestForCategoryWitness ==
  /\ request.tool = "get_best_link"
  /\ \E l, o \in LinkRows :
       /\ l.category = request.args.category
       /\ o.category = request.args.category
       /\ o.commission_rate < l.commission_rate
       /\ response.body.id = l.id

(* C10: search_links returns the links whose product contains the query or *)
(* whose notes, as supplied to store_affiliate_link, contain it, at most   *)
(* limit of them (20 by default), by commissionRate descending, and an     *)
(* empty sequence, never an error, when none matches.                      *)
SearchProductOrNotes ==
  request.tool = "search_links" =>
    LET q == request.args.query
        matching ==
          {i \in 1 .. Len(affiliate_links) :
             \/ Contains(affiliate_links[i].product, q)
             \/ IsSome(supplied[i].notes) /\ Contains(Get(supplied[i].notes), q)}
        limit == IF IsSome(request.args.limit) THEN Get(request.args.limit) ELSE 20
        got == response.body.links
    IN  /\ ~response.isError
        /\ \A k \in 1 .. Len(got) : \E i \in matching : affiliate_links[i].id = got[k].id
        /\ NoRepeats(got)
        /\ Len(got) = Min(limit, Cardinality(matching))
        /\ RatesDescend(got)


----------------------------------------------------------------------------
(* Export, monotonicity, commission bounds and the frame of every operation *)

(* Entries of an export that carry the id of the i-th stored link *)
EntriesOf(links, i) ==
  {k \in 1 .. Len(links) : links[k].id = affiliate_links[i].id}

(* C11: the JSON export holds exactly one entry per stored link, and that  *)
(* entry reproduces every field supplied at creation (program, product,    *)
(* link, commissionRate, category, tags as an array, expiry, notes), the   *)
(* generated id and the current counters.                                  *)
ExportRoundTrip ==
  (request.tool = "export_links" /\ request.args.format = "json") =>
    LET links == response.body.json IN
    /\ Len(links) = Len(affiliate_links)
    /\ \A i \in 1 .. Len(affiliate_links) :
         /\ Cardinality(EntriesOf(links, i)) = 1
         /\ \A k \in EntriesOf(links, i) :
              /\ links[k].id = affiliate_links[i].id
              /\ links[k].program = supplied[i].program
              /\ links[k].product = supplied[i].product
              /\ links[k].link = supplied[i].link
              /\ links[k].commissionRate = supplied[i].commissionRate
              /\ links[k].category = supplied[i].category
              /\ IsSome(supplied[i].tags) => links[k].tags = Get(supplied[i].tags)
              /\ IsSome(supplied[i].expiry) => links[k].expiry = supplied[i].expiry
              /\ IsSome(supplied[i].notes) => links[k].notes = supplied[i].notes
              /\ links[k].clicks = affiliate_links[i].clicks
              /\ links[k].conversions = affiliate_links[i].conversions
              /\ links[k].revenue = affiliate_links[i].revenue

(* C12: from one state to the next no link's revenue decreases, and        *)
(* neither does its clicks or its conversions counter.                     *)
MonotonicRevenue ==
  [][\A i \in DOMAIN affiliate_links \cap DOMAIN affiliate_links' :
       /\ affiliate_links'[i].revenue >= affiliate_links[i].revenue
       /\ affiliate_links'[i].clicks >= affiliate_links[i].clicks
       /\ affiliate_links'[i].conversions >= affiliate_links[i].conversions]_vars

(* C13: every stored link has a commission rate between 0 and 100. *)
CommissionRateRange ==
  \A l \in LinkRows : 0 <= l.commission_rate /\ l.commission_rate <= 100

(* Tools that only read *)
ReadTools ==
  {"get_affiliate_links", "get_best_link", "search_links", "get_stats",
   "export_links"}

(* No link leaves the table, and no link's id, link, program, product,     *)
(* category, commission_rate, created_at or updated_at changes             *)
LinksKept ==
  /\ Len(affiliate_links') >= Len(affiliate_links)
  /\ \A i \in 1 .. Len(affiliate_links) :
       /\ affiliate_links'[i].id = affiliate_links[i].id
       /\ affiliate_links'[i].link = affiliate_links[i].link
       /\ affiliate_links'[i].program = affiliate_links[i].program
       /\ affiliate_links'[i].product = affiliate_links[i].product
       /\ affiliate_links'[i].category = affiliate_links[i].category
       /\ affiliate_links'[i].commission_rate = affiliate_links[i].commission_rate
       /\ affiliate_links'[i].created_at = affiliate_links[i].created_at
       /\ affiliate_links'[i].updated_at = affiliate_links[i].updated_at

(* No event leaves either event table *)
EventsKept ==
  /\ link_clicks \sqsubseteq link_clicks'
  /\ link_conversions \sqsubseteq link_conversions'

ReadFrame ==
  request'.tool \in ReadTools =>
    UNCHANGED <<affiliate_links, link_clicks, link_conversions>>

CreateFrame ==
  request'.tool = "store_affiliate_link" =>
    /\ UNCHANGED <<link_clicks, link_conversions>>
    /\ \/ UNCHANGED affiliate_links
       \/ /\ Len(affiliate_links') = Len(affiliate_links) + 1
          /\ SubSeq(affiliate_links', 1, Len(affiliate_links)) = affiliate_links
          /\ affiliate_links'[Len(affiliate_links')].clicks = 0
          /\ affiliate_links'[Len(affiliate_links')].conversions = 0
          /\ affiliate_links'[Len(affiliate_links')].revenue = 0

RecordClickFrame ==
  request'.tool = "track_click" =>
    /\ UNCHANGED link_conversions
    /\ \/ UNCHANGED <<affiliate_links, link_clicks>>
       \/ /\ link_clicks' (-) link_clicks =
               SetToBag({[link_id |-> request'.args.linkId]})
          /\ Len(affiliate_links') = Len(affiliate_links)
          /\ \A i \in 1 .. Len(affiliate_links) :
               affiliate_links'[i] =
                 IF affiliate_links[i].id = request'.args.linkId
                 THEN [affiliate_links[i] EXCEPT
                         !.clicks = affiliate_links'[i].clicks]
                 ELSE affiliate_links[i]

RecordConversionFrame ==
  request'.tool = "track_conversion" =>
    /\ UNCHANGED link_clicks
    /\ \/ UNCHANGED <<affiliate_links, link_conversions>>
       \/ /\ link_conversions' (-) link_conversions =
               SetToBag({[link_id |-> request'.args.linkId,
                          amount |-> request'.args.amount]})
          /\ Len(affiliate_links') = Len(affiliate_links)
          /\ \A i \in 1 .. Len(affiliate_links) :
               affiliate_links'[i] =
                 IF affiliate_links[i].id = request'.args.linkId
                 THEN [affiliate_links[i] EXCEPT
                         !.conversions = affiliate_links'[i].conversions,
                         !.revenue = affiliate_links'[i].revenue]
                 ELSE affiliate_links[i]

(* C14: the five reading tools leave the three tables unchanged; a create  *)
(* only appends one link whose clicks, conversions and revenue are 0; a    *)
(* recorded click or conversion only adds one event and changes only the   *)
(* clicks, or the conversions and revenue, of the link whose id is linkId; *)
(* no tool removes a link or an event or changes a link's id, link,        *)
(* program, product, category, commission rate, created_at or updated_at.  *)
FrameOfEveryOperation ==
  [][/\ ReadFrame
     /\ CreateFrame
     /\ RecordClickFrame
     /\ RecordConversionFrame
     /\ LinksKept
     /\ EventsKept]_vars

(* Two links with a click, a conversion and revenue, read by an export *)
FrameWitness ==
  /\ request.tool = "export_links"
  /\ Len(affiliate_links) = 2
  /\ BagCardinality(link_clicks) > 0
  /\ BagCardinality(link_conversions) > 0
  /\ \E l \in LinkRows : l.clicks > 0 /\ l.revenue # 0

====
